---- MODULE Spec2Model ----
(***************************************************************************)
(* A model of src/project.py: the CurrencyDataAnalyzer object, its         *)
(* preprocessing, RSI and trade-signal computations, and main().           *)
(*                                                                         *)
(* Prices are exact rationals (integer multiples of a tick); the float     *)
(* special values the code relies on (NaN, +-inf, -0.0) are modelled with  *)
(* their IEEE-754 rules.  Rounding error is not modelled.                  *)
(* Series positions are 1-based here; position p is the code's index p-1.  *)
(***************************************************************************)
EXTENDS Integers, Sequences, FiniteSets, TLC

VARIABLES data, heap, analysis, signals, chart, report, pc, last, arg, ret

vars == <<data, heap, analysis, signals, chart, report, pc, last, arg, ret>>

(***************************************************************************)
(* Bounds of the model.                                                    *)
(***************************************************************************)
MaxLen == 5
MaxPrice == 3
MaxWindow == 3
MaxRows == 2
MaxSigLen == 3

\* the sequences over S of length at most n
RECURSIVE SeqsUpTo(_, _)
SeqsUpTo(S, n) ==
    IF n = 0 THEN {<<>>}
    ELSE LET R == SeqsUpTo(S, n - 1)
         IN R \cup {Append(r, x) : r \in {q \in R : Len(q) = n - 1}, x \in S}

(***************************************************************************)
(* 64-bit floats, as far as the code uses them.                            *)
(***************************************************************************)
RECURSIVE Gcd(_, _)
Gcd(a, b) == IF b = 0 THEN a ELSE Gcd(b, a % b)

Abs(n) == IF n < 0 THEN -n ELSE n

NaN == [k |-> "nan", n |-> 0, d |-> 1]
PInf == [k |-> "inf", n |-> 1, d |-> 1]
NInf == [k |-> "inf", n |-> -1, d |-> 1]
NZero == [k |-> "nzero", n |-> 0, d |-> 1]

\* the rational n/d (d # 0) in lowest terms
Rat(n, d) ==
    LET s == IF d < 0 THEN -1 ELSE 1
        g == Gcd(Abs(n), Abs(d))
    IN [k |-> "fin", n |-> (s * n) \div g, d |-> Abs(d) \div g]

Num(n) == Rat(n, 1)

IsNaN(x) == x.k = "nan"
IsInf(x) == x.k = "inf"
IsZero(x) == x.k = "nzero" \/ (x.k = "fin" /\ x.n = 0)
Sign(x) == IF x.k = "nzero" \/ x.n < 0 THEN -1 ELSE 1
SignedZero(s) == IF s < 0 THEN NZero ELSE Num(0)
SignedInf(s) == IF s < 0 THEN NInf ELSE PInf

FNeg(x) ==
    CASE IsNaN(x) -> NaN
      [] IsInf(x) -> SignedInf(-x.n)
      [] IsZero(x) -> SignedZero(-Sign(x))
      [] OTHER -> Rat(-x.n, x.d)

FAdd(x, y) ==
    CASE IsNaN(x) \/ IsNaN(y) -> NaN
      [] IsInf(x) /\ IsInf(y) -> IF x.n = y.n THEN x ELSE NaN
      [] IsInf(x) -> x
      [] IsInf(y) -> y
      [] IsZero(x) /\ IsZero(y) -> IF Sign(x) < 0 /\ Sign(y) < 0 THEN NZero ELSE Num(0)
      [] OTHER -> Rat(x.n * y.d + y.n * x.d, x.d * y.d)

FSub(x, y) == FAdd(x, FNeg(y))

FDiv(x, y) ==
    CASE IsNaN(x) \/ IsNaN(y) -> NaN
      [] IsInf(x) /\ IsInf(y) -> NaN
      [] IsZero(x) /\ IsZero(y) -> NaN
      [] IsInf(x) -> SignedInf(Sign(x) * Sign(y))
      [] IsInf(y) -> SignedZero(Sign(x) * Sign(y))
      [] IsZero(y) -> SignedInf(Sign(x) * Sign(y))
      [] IsZero(x) -> SignedZero(Sign(x) * Sign(y))
      [] OTHER -> Rat(x.n * y.d, x.d * y.n)

\* x > y; false when either side is NaN
FGt(x, y) ==
    /\ ~IsNaN(x)
    /\ ~IsNaN(y)
    /\ CASE IsInf(x) -> x.n = 1 /\ y # PInf
         [] IsInf(y) -> y.n = -1
         [] OTHER -> x.n * y.d > y.n * x.d

FLt(x, y) == FGt(y, x)

FEq(x, y) == ~IsNaN(x) /\ ~IsNaN(y) /\ ~FGt(x, y) /\ ~FGt(y, x)

(***************************************************************************)
(* Series operations of calculate_rsi.                                     *)
(***************************************************************************)
\* (a variant of diff with the operands swapped)
diffReversed(s) == [p \in 1..Len(s) |-> IF p = 1 THEN NaN ELSE FSub(s[p - 1], s[p])]

\* Series.diff(): the first element has no predecessor
diff(s) == [p \in 1..Len(s) |-> IF p = 1 THEN NaN ELSE FSub(s[p], s[p - 1])]

\* delta.where(delta > 0, 0): a NaN delta fails the test and becomes 0
gainOf(delta) == [p \in 1..Len(delta) |-> IF FGt(delta[p], Num(0)) THEN delta[p] ELSE Num(0)]

\* (a variant of lossOf without the negation)
lossOfUnnegated(delta) == [p \in 1..Len(delta) |-> IF FLt(delta[p], Num(0)) THEN delta[p] ELSE Num(0)]

\* -delta.where(delta < 0, 0): every element that is no loss becomes -0.0
lossOf(delta) == [p \in 1..Len(delta) |-> FNeg(IF FLt(delta[p], Num(0)) THEN delta[p] ELSE Num(0))]

\* the sum of s[lo..hi], accumulated from 0.0
RECURSIVE windowSum(_, _, _)
windowSum(s, lo, hi) == IF hi < lo THEN Num(0) ELSE FAdd(windowSum(s, lo, hi - 1), s[hi])

\* rolling(window).mean(): min_periods is the window; a window whose
\* observations are all the same value yields that value
rollingMean(s, window) ==
    [p \in 1..Len(s) |->
        IF p < window \/ \E q \in (p - window + 1)..p : IsNaN(s[q])
        THEN NaN
        ELSE IF \A q \in (p - window + 1)..p : s[q] = s[p]
             THEN s[p]
             ELSE FDiv(windowSum(s, p - window + 1, p), Num(window))]

\* the intermediate series gain and loss of calculate_rsi
avgGain(close, window) == rollingMean(gainOf(diff(close)), window)
avgLoss(close, window) == rollingMean(lossOf(diff(close)), window)

calculate_rsi(close, window) ==
    LET gain == avgGain(close, window)
        loss == avgLoss(close, window)
        rs == [p \in 1..Len(close) |-> FDiv(gain[p], loss[p])]
    IN [p \in 1..Len(close) |-> FSub(Num(100), FDiv(Num(100), FAdd(Num(1), rs[p])))]

(***************************************************************************)
(* Raw input: the 'Time Series FX (Daily)' object of the response, a       *)
(* mapping (in insertion order, with distinct keys) from a date string to  *)
(* a record of price strings.  It is a sequence of [key, rec] entries.     *)
(***************************************************************************)
None == [k |-> "none"]
Error(e) == [k |-> "error", e |-> e]
IsError(x) == x.k = "error"

DateStrs == <<"2024-01-01", "2024-01-02", "2024-01-03", "2024-01-04", "2024-01-05",
              "2024-01-06", "2024-01-07", "2024-01-08", "2024-01-09", "2024-01-10",
              "2024-01-11", "2024-01-12", "2024-01-13", "2024-01-14", "2024-01-15">>

PriceStrs == <<"1.0", "2.0", "3.0", "4.0", "5.0", "6.0", "7.0", "8.0", "9.0", "10.0",
               "11.0", "12.0", "13.0", "14.0", "15.0">>

\* float(s) as the dtype=float conversion does it: the number, or a ValueError
ParseFloat(s) ==
    IF \E v \in DOMAIN PriceStrs : PriceStrs[v] = s
    THEN Num(CHOOSE v \in DOMAIN PriceStrs : PriceStrs[v] = s)
    ELSE Error("ValueError")

\* pd.to_datetime on one key: the day it denotes (two spellings may denote
\* the same day), or a parse error
ToDatetime(key) ==
    IF \E t \in DOMAIN DateStrs : DateStrs[t] = key
    THEN [k |-> "date", t |-> CHOOSE t \in DOMAIN DateStrs : DateStrs[t] = key]
    ELSE IF key = "2024-1-1" THEN [k |-> "date", t |-> 1]
    ELSE Error("ValueError")

Fields == {"1. open", "2. high", "3. low", "4. close"}

\* df.rename(columns=...)
Rename(field) ==
    CASE field = "1. open" -> "Open"
      [] field = "2. high" -> "High"
      [] field = "3. low" -> "Low"
      [] field = "4. close" -> "Close"
      [] OTHER -> field

(***************************************************************************)
(* Frames: an index (a sequence of days) and named columns of floats.      *)
(***************************************************************************)
Frame(index, cols) == [k |-> "frame", index |-> index, cols |-> cols]
Columns(f) == DOMAIN f.cols
NRows(f) == Len(f.index)

\* position of the entry that goes first among the positions in S: the
\* earliest day, and among equal days the one that came first (a stable sort)
FirstOf(days, S) ==
    CHOOSE i \in S : \A j \in S : days[i] < days[j] \/ (days[i] = days[j] /\ i <= j)

RECURSIVE SortPerm(_, _)
SortPerm(days, S) ==
    IF S = {} THEN <<>>
    ELSE LET i == FirstOf(days, S) IN <<i>> \o SortPerm(days, S \ {i})

\* df.sort_index()
sort_index(f) ==
    LET perm == SortPerm(f.index, 1..NRows(f))
    IN Frame([p \in 1..NRows(f) |-> f.index[perm[p]]],
             [c \in Columns(f) |-> [p \in 1..NRows(f) |-> f.cols[c][perm[p]]]])

\* pd.DataFrame.from_dict(data, orient='index', dtype=float): one row per key,
\* one column per field that any record has, NaN where a record lacks the
\* field.  A value that is no number is taken to raise ValueError, as the
\* float conversion of current pandas does (older releases kept the column
\* as strings without raising).
from_dict(raw) ==
    LET fields == UNION {DOMAIN raw[i].rec : i \in 1..Len(raw)}
    IN IF \E i \in 1..Len(raw) : \E f \in DOMAIN raw[i].rec : IsError(ParseFloat(raw[i].rec[f]))
       THEN Error("ValueError")
       ELSE Frame([i \in 1..Len(raw) |-> raw[i].key],
                  [f \in fields |->
                      [i \in 1..Len(raw) |->
                          IF f \in DOMAIN raw[i].rec THEN ParseFloat(raw[i].rec[f]) ELSE NaN]])

preprocess_data(raw) ==
    LET df == from_dict(raw)
    IN IF IsError(df) THEN df
       ELSE LET renamed == Frame(df.index,
                                 [c \in {Rename(f) : f \in Columns(df)} |->
                                     df.cols[CHOOSE f \in Columns(df) : Rename(f) = c]])
            IN IF \E p \in 1..NRows(renamed) : IsError(ToDatetime(renamed.index[p]))
               THEN Error("ValueError")
               ELSE sort_index(Frame([p \in 1..NRows(renamed) |-> ToDatetime(renamed.index[p]).t],
                                     renamed.cols))

(***************************************************************************)
(* The object after construction.                                          *)
(***************************************************************************)

\* Frames live on a heap and the object holds references to them, so that
\* two attributes may name one frame.  An assignment to an attribute drops
\* the frame the attribute held, whose place the new frame may take.
Refs == 1..2
Ref(r) == [k |-> "ref", r |-> r]
RefsOf(holders) == {h.r : h \in {x \in holders : x.k = "ref"}}

NoCall == [op |-> "none", ok |-> TRUE]

\* the object as __init__ leaves it, with no method running
ObjInit ==
    /\ data = None
    /\ heap = [r \in Refs |-> None]
    /\ analysis = None
    /\ signals = None
    /\ chart = FALSE
    /\ report = FALSE
    /\ pc = "free"
    /\ last = NoCall

(***************************************************************************)
(* Heap operations.                                                        *)
(***************************************************************************)
Alloc(h, roots) == CHOOSE r \in Refs : r \notin roots /\ \A q \in Refs \ roots : r <= q

\* frames no attribute refers to are dropped
Collect(h, roots) == [r \in Refs |-> IF r \in roots THEN h[r] ELSE None]

\* (a variant of copy that returns the frame itself)
copyAlias(h, r, roots) == [h |-> h, r |-> r]

\* DataFrame.copy(): a new frame with the same content
copy(h, r, roots) ==
    LET n == Alloc(h, roots) IN [h |-> [h EXCEPT ![n] = h[r]], r |-> n]

(***************************************************************************)
(* Column operations of generate_trade_signals.                            *)
(***************************************************************************)
Overbought == 70
Oversold == 30

\* (a variant of isOverbought with >= for >)
isOverboughtInclusive(x) == FGt(x, Num(Overbought)) \/ FEq(x, Num(Overbought))

\* df['RSI'] > 70
isOverbought(x) == FGt(x, Num(Overbought))

\* df['RSI'] < 30
isOversold(x) == FLt(x, Num(Oversold))

\* df.loc[mask, col] = val: a column that does not exist yet is created as NaN
locSet(f, mask, col, val) ==
    Frame(f.index,
          [c \in Columns(f) \cup {col} |->
              [p \in 1..NRows(f) |->
                  IF c # col THEN f.cols[c][p]
                  ELSE IF mask[p] THEN val
                  ELSE IF col \in Columns(f) THEN f.cols[col][p]
                  ELSE NaN]])

\* df[col] = series
setCol(f, col, series) ==
    Frame(f.index, [c \in Columns(f) \cup {col} |-> IF c = col THEN series ELSE f.cols[c]])

fillna(series, v) == [p \in 1..Len(series) |-> IF IsNaN(series[p]) THEN v ELSE series[p]]

\* (a variant of shift that moves the series the other way)
shiftBack(series) ==
    [p \in 1..Len(series) |-> IF p = Len(series) THEN NaN ELSE series[p + 1]]

\* Series.shift(): every element moves one place on, and the first is NaN
shift(series) == [p \in 1..Len(series) |-> IF p = 1 THEN NaN ELSE series[p - 1]]

\* lines 55-58 of generate_trade_signals, on the frame df
tradeSignals(df) ==
    LET f1 == locSet(df, [p \in 1..NRows(df) |-> isOverbought(df.cols["RSI"][p])],
                     "Signal", Num(-1))
        f2 == locSet(f1, [p \in 1..NRows(f1) |-> isOversold(f1.cols["RSI"][p])],
                     "Signal", Num(1))
        f3 == setCol(f2, "Signal", fillna(f2.cols["Signal"], Num(0)))
    IN setCol(f3, "Position", shift(f3.cols["Signal"]))

(***************************************************************************)
(* The responses of the endpoint.                                          *)
(***************************************************************************)
DefaultWindow == 14

Json(raw) == [k |-> "json", hasTs |-> TRUE, ts |-> raw]
\* a body without 'Time Series FX (Daily)' (an error or rate-limit note)
JsonNote == [k |-> "json", hasTs |-> FALSE, ts |-> <<>>]

Keys == {"2024-01-01", "2024-1-1", "2024-01-02", "not-a-date"}

Full(v) == [f \in Fields |-> v]
Without(rec, f) == [g \in DOMAIN rec \ {f} |-> rec[g]]

Records ==
    { Full("1.0"), Full("2.0"),
      Without(Full("1.0"), "2. high"),
      Without(Full("2.0"), "4. close"),
      [Full("1.0") EXCEPT !["4. close"] = "N/A"] }

Entries == [key : Keys, rec : Records]

LongSeries(closes) ==
    [i \in 1..Len(closes) |-> [key |-> DateStrs[i], rec |-> Full(PriceStrs[closes[i]])]]

Slump == LongSeries(<<15, 14, 13, 12, 11, 10, 9, 8, 7, 6, 5, 4, 3, 2, 1>>)
Mixed == LongSeries(<<4, 11, 8, 8, 8, 8, 8, 8, 8, 8, 8, 8, 8, 8, 9>>)

Responses ==
    { JsonNote,
      Json(<<>>),
      Json(<<[key |-> "2024-01-01", rec |-> Full("1.0")]>>),
      Json(<<[key |-> "2024-01-02", rec |-> Full("2.0")],
             [key |-> "2024-01-01", rec |-> Full("1.0")]>>),
      Json(<<[key |-> "2024-01-01", rec |-> Full("1.0")],
             [key |-> "2024-1-1", rec |-> Full("2.0")]>>),
      Json(<<[key |-> "2024-01-01", rec |-> Full("1.0")],
             [key |-> "2024-01-02", rec |-> Without(Full("1.0"), "2. high")]>>),
      Json(<<[key |-> "2024-01-01", rec |-> Without(Full("2.0"), "4. close")]>>),
      Json(<<[key |-> "2024-01-01", rec |-> [Full("1.0") EXCEPT !["4. close"] = "N/A"]]>>),
      Json(<<[key |-> "not-a-date", rec |-> Full("1.0")]>>),
      Json(Slump), Json(Mixed) }

(***************************************************************************)
(* The methods of CurrencyDataAnalyzer, and main.                          *)
(* pc is "free" when the methods are called in any order, and the stage    *)
(* of main otherwise.  last is the last call and whether it returned.      *)
(***************************************************************************)
Advance(nxt, ok) == pc' = IF pc = "free" THEN "free" ELSE IF ok THEN nxt ELSE "failed"

Called(op, ok) == last' = [op |-> op, ok |-> ok]

\* the request may fail (an exception, a status other than 200, a body that
\* is no JSON): resp = None
fetch_currency_data ==
    /\ pc \in {"free", "fetch"}
    /\ \E resp \in Responses \cup {None} :
          /\ data' = IF resp = None THEN data ELSE resp
          /\ Called("fetch_currency_data", resp # None)
          /\ Advance("analyze", resp # None)
    /\ UNCHANGED <<heap, analysis, signals, chart, report, arg, ret>>

\* the frame analyze_currency_strength stores, or the error it raises
analyzed(d) ==
    IF d = None THEN Error("TypeError")
    ELSE IF ~d.hasTs THEN Error("KeyError")
    ELSE LET df == preprocess_data(d.ts)
         IN IF IsError(df) THEN df
            ELSE IF "Close" \notin Columns(df) THEN Error("KeyError")
            ELSE setCol(df, "RSI", calculate_rsi(df.cols["Close"], DefaultWindow))

analyze_currency_strength ==
    /\ pc \in {"free", "analyze"}
    /\ LET df == analyzed(data)
           n == Alloc(heap, RefsOf({signals}))
       IN /\ analysis' = IF IsError(df) THEN analysis ELSE Ref(n)
          /\ heap' = IF IsError(df) THEN heap
                     ELSE Collect([heap EXCEPT ![n] = df], {n} \cup RefsOf({signals}))
          /\ Called("analyze_currency_strength", ~IsError(df))
          /\ Advance("signals", ~IsError(df))
    /\ UNCHANGED <<data, signals, chart, report, arg, ret>>

\* the heap and the reference generate_trade_signals ends with, or its error
generated(h, a, roots) ==
    IF a = None THEN Error("AttributeError")
    ELSE LET c == copy(h, a.r, roots)
             df == c.h[c.r]
         IN IF "RSI" \notin Columns(df) THEN Error("KeyError")
            ELSE IF NRows(df) = 0 /\ "Signal" \notin Columns(df) THEN Error("ValueError")
            ELSE [k |-> "ok", h |-> [c.h EXCEPT ![c.r] = tradeSignals(df)], r |-> c.r]

generate_trade_signals ==
    /\ pc \in {"free", "signals"}
    /\ LET out == generated(heap, analysis, RefsOf({analysis}))
       IN /\ signals' = IF IsError(out) THEN signals ELSE Ref(out.r)
          /\ heap' = IF IsError(out) THEN heap
                     ELSE Collect(out.h, {out.r} \cup RefsOf({analysis}))
          /\ Called("generate_trade_signals", ~IsError(out))
          /\ Advance("plot", ~IsError(out))
    /\ UNCHANGED <<data, analysis, chart, report, arg, ret>>

\* the days whose Signal is v
SignalDays(f, v) == {f.index[p] : p \in {q \in 1..NRows(f) : f.cols["Signal"][q] = Num(v)}}
IndexDays(f) == {f.index[p] : p \in 1..NRows(f)}

\* everything plot_data does before savefig raises nothing
plottable ==
    /\ analysis # None
    /\ signals # None
    /\ (SignalDays(heap[signals.r], 1) \cup SignalDays(heap[signals.r], -1))
          \subseteq IndexDays(heap[analysis.r])

\* savefig writes currency_analysis.png, unless the write fails
plot_data ==
    /\ pc \in {"free", "plot"}
    /\ \E written \in BOOLEAN :
          LET ok == plottable /\ written
          IN /\ chart' = (chart \/ ok)
             /\ Called("plot_data", ok)
             /\ Advance("report", ok)
    /\ UNCHANGED <<data, heap, analysis, signals, report, arg, ret>>

\* pdf.image reads the chart file and pdf.output writes report.pdf; either
\* may fail
generate_report ==
    /\ pc \in {"free", "report"}
    /\ \E ok \in BOOLEAN :
          /\ report' = (report \/ ok)
          /\ Called("generate_report", ok)
          /\ Advance("done", ok)
    /\ UNCHANGED <<data, heap, analysis, signals, chart, arg, ret>>

Next ==
    \/ fetch_currency_data
    \/ analyze_currency_strength
    \/ generate_trade_signals
    \/ plot_data
    \/ generate_report

\* The object is driven by main (pc = "fetch"), or its methods are called in
\* any order by another caller (pc = "free").
Init ==
    /\ data = None
    /\ heap = [r \in Refs |-> None]
    /\ analysis = None
    /\ signals = None
    /\ chart = FALSE
    /\ report = FALSE
    /\ pc \in {"free", "fetch"}
    /\ last = NoCall
    /\ arg = None
    /\ ret = None

Spec == Init /\ [][Next]_vars

(***************************************************************************)
(* Claims about the object and main (checked under Spec).                  *)
(***************************************************************************)
Malformed(raw) ==
    \E i \in 1..Len(raw) :
        \/ DOMAIN raw[i].rec # Fields
        \/ \E f \in DOMAIN raw[i].rec : IsError(ParseFloat(raw[i].rec[f]))
        \/ IsError(ToDatetime(raw[i].key))

\* C6 (as stated): when a raw record lacks one of the four price fields, or a
\* price or a date key does not parse, analyze_currency_strength fails and
\* leaves self.analysis as it was.
C6_MalformedInputFails ==
    [][(/\ last'.op = "analyze_currency_strength"
        /\ data.k = "json"
        /\ data.hasTs
        /\ Malformed(data.ts))
       => (~last'.ok /\ analysis' = analysis /\ heap' = heap)]_vars

\* C8 (as stated): a run of main in which a stage failed has written neither
\* the chart nor the report, and the chart is written only in runs that also
\* write the report.
C8_NoPartialArtifacts ==
    /\ pc = "failed" => (~chart /\ ~report)
    /\ pc \in {"failed", "done"} => (chart => report)

HasFrame(x) == x.k = "ref"

\* C10: a call of generate_trade_signals leaves self.data and self.analysis
\* as they were (the same frame, with the same rows, RSI and columns, and
\* neither Signal nor Position among them), and writes no file; a second
\* call on the same analysis yields the same signals.
C10_GenerateChangesOnlySignals ==
    [][last'.op = "generate_trade_signals" =>
        /\ data' = data
        /\ analysis' = analysis
        /\ chart' = chart
        /\ report' = report
        /\ HasFrame(analysis) =>
              /\ heap'[analysis.r] = heap[analysis.r]
              /\ Columns(heap'[analysis.r]) \cap {"Signal", "Position"} = {}
        /\ (last.op = "generate_trade_signals" /\ last.ok /\ last'.ok) =>
              heap'[signals'.r] = heap[signals.r]]_vars

C10_Witness ==
    /\ last = [op |-> "generate_trade_signals", ok |-> TRUE]
    /\ HasFrame(analysis)
    /\ HasFrame(signals)
    /\ Columns(heap[analysis.r]) \cap {"Signal", "Position"} = {}
    /\ \E p \in 1..NRows(heap[signals.r]) : heap[signals.r].cols["Signal"][p] = Num(-1)
    /\ heap[signals.r].cols["RSI"] = heap[analysis.r].cols["RSI"]

(***************************************************************************)
(* generate_trade_signals as a function of self.analysis: the object holds *)
(* an analysis whose RSI column is any series over RsiVals.                *)
(***************************************************************************)
RsiVals ==
    { NaN, Num(0), Rat(299, 10), Num(Oversold), Rat(301, 10), Num(50),
      Rat(699, 10), Num(Overbought), Rat(701, 10), Num(100) }

InitSig ==
    /\ data = None
    /\ \E rsi \in SeqsUpTo(RsiVals, MaxSigLen) :
          /\ Len(rsi) >= 1
          /\ heap = [r \in Refs |->
                       IF r = 1
                       THEN Frame([p \in 1..Len(rsi) |-> p],
                                  [c \in {"Close", "RSI"} |->
                                      IF c = "RSI" THEN rsi ELSE [p \in 1..Len(rsi) |-> Num(1)]])
                       ELSE None]
    /\ analysis = Ref(1)
    /\ signals = None
    /\ chart = FALSE
    /\ report = FALSE
    /\ pc = "free"
    /\ last = NoCall
    /\ arg = None
    /\ ret = None

NextSig == generate_trade_signals

SpecSig == InitSig /\ [][NextSig]_vars

(***************************************************************************)
(* Claims about generate_trade_signals (checked under SpecSig).            *)
(***************************************************************************)
RsiIn == heap[analysis.r].cols["RSI"]
SignalOut == heap[signals.r].cols["Signal"]
PositionOut == heap[signals.r].cols["Position"]

\* C3: Signal is -1 exactly where RSI > 70, 1 exactly where RSI < 30, and 0
\* everywhere else (RSI of exactly 70 or 30, or NaN), also when no RSI
\* crosses a threshold.
C3_SignalRule ==
    HasFrame(signals) =>
        /\ "Signal" \in Columns(heap[signals.r])
        /\ Len(SignalOut) = Len(RsiIn)
        /\ \A p \in 1..Len(RsiIn) :
              /\ SignalOut[p] = Num(-1) <=> FGt(RsiIn[p], Num(70))
              /\ SignalOut[p] = Num(1) <=> FLt(RsiIn[p], Num(30))
              /\ SignalOut[p] = Num(0) <=> ~FGt(RsiIn[p], Num(70)) /\ ~FLt(RsiIn[p], Num(30))

C3_Witness ==
    /\ HasFrame(signals)
    /\ \E p, q, r \in 1..Len(RsiIn) :
          /\ RsiIn[p] = Num(70) /\ SignalOut[p] = Num(0)
          /\ FGt(RsiIn[q], Num(70)) /\ SignalOut[q] = Num(-1)
          /\ FLt(RsiIn[r], Num(30)) /\ SignalOut[r] = Num(1)

CloseVals == {Num(v) : v \in 1..MaxPrice} \cup {NaN}

InitRsi ==
    /\ ObjInit
    /\ arg \in [close : SeqsUpTo(CloseVals, MaxLen), window : 1..MaxWindow]
    /\ ret = None

CallCalculateRsi ==
    /\ ret = None
    /\ ret' = [k |-> "series", v |-> calculate_rsi(arg.close, arg.window)]
    /\ UNCHANGED <<data, heap, analysis, signals, chart, report, pc, last, arg>>

NextRsi == CallCalculateRsi

SpecRsi == InitRsi /\ [][NextRsi]_vars

(***************************************************************************)
(* preprocess_data as a pure function of its argument.                     *)
(***************************************************************************)
DistinctKeys(raw) == \A i, j \in 1..Len(raw) : i # j => raw[i].key # raw[j].key

RawInputs == {raw \in SeqsUpTo(Entries, MaxRows) : DistinctKeys(raw)}

InitPre ==
    /\ ObjInit
    /\ arg \in RawInputs
    /\ ret = None

CallPreprocessData ==
    /\ ret = None
    /\ ret' = preprocess_data(arg)
    /\ UNCHANGED <<data, heap, analysis, signals, chart, report, pc, last, arg>>

NextPre == CallPreprocessData

SpecPre == InitPre /\ [][NextPre]_vars

(***************************************************************************)
(* Claims about preprocess_data (checked under SpecPre).                   *)
(***************************************************************************)
DuplicateDates(raw) ==
    \E i, j \in 1..Len(raw) :
        /\ i # j
        /\ ~IsError(ToDatetime(raw[i].key))
        /\ ToDatetime(raw[i].key) = ToDatetime(raw[j].key)

\* row p of frame f is the observation of entry e
RowIs(f, p, e) ==
    /\ ToDatetime(e.key) = [k |-> "date", t |-> f.index[p]]
    /\ \A fld \in DOMAIN e.rec : f.cols[Rename(fld)][p] = ParseFloat(e.rec[fld])

\* C5 (as stated): a series preprocess_data returns is in strictly increasing
\* date order, with no date twice, and holds exactly the input observations;
\* input whose keys denote the same day twice is rejected with an error.
C5_StrictlyIncreasingOrRejected ==
    /\ ret.k = "frame" =>
          /\ \A p \in 1..(NRows(ret) - 1) : ret.index[p] < ret.index[p + 1]
          /\ NRows(ret) = Len(arg)
          /\ \A i \in 1..Len(arg) : \E p \in 1..NRows(ret) : RowIs(ret, p, arg[i])
    /\ (ret # None /\ DuplicateDates(arg)) => IsError(ret)

\* C7 (as stated): given a mapping with zero entries, preprocess_data fails
\* with an error and returns no (empty) series.
C7_EmptyInputRejected ==
    (ret # None /\ Len(arg) = 0) => IsError(ret)

(***************************************************************************)
(* Claims about calculate_rsi (checked under SpecRsi).                     *)
(***************************************************************************)
Returned == ret.k = "series"

InRange(x) == ~IsNaN(x) /\ ~IsInf(x) /\ ~FLt(x, Num(0)) /\ ~FGt(x, Num(100))

\* C1 (as stated): the RSI is NaN at every index i < window, that is at
\* every position p <= window, index window-1 included.
C1_FirstWindowUndefined ==
    Returned => \A p \in 1..Len(ret.v) : p <= arg.window => IsNaN(ret.v[p])

\* C2: the returned series has exactly as many elements as the input, and
\* every element that is not NaN lies in [0, 100].
C2_LengthAndRange ==
    Returned =>
        /\ Len(ret.v) = Len(arg.close)
        /\ \A p \in 1..Len(ret.v) : ~IsNaN(ret.v[p]) => InRange(ret.v[p])

C2_Witness ==
    /\ Returned
    /\ Len(arg.close) = MaxLen
    /\ \E p \in 1..Len(ret.v) : FGt(ret.v[p], Num(0)) /\ FLt(ret.v[p], Num(100))

\* the closes of the window that ends at position p hold no decrease / an increase
NoDecrease(close, window, p) ==
    \A q \in (p - window + 1)..p : ~FLt(close[q], close[q - 1])
SomeIncrease(close, window, p) ==
    \E q \in (p - window + 1)..p : FGt(close[q], close[q - 1])

\* C9: at every index i >= window (position p > window) whose trailing window
\* holds no price decrease, the average loss is zero and the RSI is exactly
\* 100 if the window holds an increase and NaN if it holds no movement.
C9_MonotonicWindow ==
    Returned =>
        \A p \in 1..Len(ret.v) :
            (p > arg.window /\ NoDecrease(arg.close, arg.window, p)) =>
                /\ IsZero(avgLoss(arg.close, arg.window)[p])
                /\ IF SomeIncrease(arg.close, arg.window, p)
                   THEN ret.v[p] = Num(100)
                   ELSE IsNaN(ret.v[p])

C9_Witness ==
    /\ Returned
    /\ \E p, q \in 1..Len(ret.v) :
          /\ p > arg.window /\ q > arg.window
          /\ NoDecrease(arg.close, arg.window, p)
          /\ NoDecrease(arg.close, arg.window, q)
          /\ SomeIncrease(arg.close, arg.window, p)
          /\ ~SomeIncrease(arg.close, arg.window, q)
          /\ ret.v[p] = Num(100)
          /\ IsNaN(ret.v[q])

====
